---------------------------- MODULE Spec2Model ----------------------------
(***************************************************************************)
(* A model of the ray-trace Lidar sensor (Sensor/Lidar.cpp) and of actor   *)
(* spawning with recording (Game/CarlaEpisode.h).                          *)
(*                                                                         *)
(* C++ float values are modelled as extended rationals: a record          *)
(* [n, d] with d > 0 in lowest terms is the number n/d; d = 0 stands for  *)
(* the IEEE-754 specials: 1/0 is +inf, -1/0 is -inf and 0/0 is NaN.       *)
(* Arithmetic on the finite values is exact (float32 rounding is not      *)
(* modelled); arithmetic on the specials follows IEEE-754.                *)
(***************************************************************************)
EXTENDS Integers, Sequences, FiniteSets, TLC

VARIABLES
  Description,       \* ALidar::Description, the installed ULidarDescription or Null
  LaserAngles,       \* ALidar::LaserAngles, one vertical angle per channel
  LidarMeasurement,  \* ALidar::LidarMeasurement, header and point buffer
  GFrameCounter,     \* the engine's frame counter read by ReadPoints
  aborted,           \* the process was stopped by a failed check() or a null read
  last,              \* observation of the most recent Set / Tick call, with its
                     \* inputs and the data it handed to WriteSensorData
  Recorder,          \* UCarlaEpisode::Recorder, the events added so far
  Registry,          \* ids of the actors the dispatcher has spawned
  calls              \* observation of the SpawnActor* calls made so far

vars == <<Description, LaserAngles, LidarMeasurement, GFrameCounter,
          aborted, last, Recorder, Registry, calls>>

lidarVars == <<Description, LaserAngles, LidarMeasurement, GFrameCounter,
               aborted, last>>

episodeVars == <<Recorder, Registry, calls>>

---------------------------------------------------------------------------
(* Bounds of the model *)

\* The engine frame counter is followed up to this value.
MaxFrameCounter == 1

\* Number of SpawnActor* calls followed on one episode.
MaxCalls == 3

---------------------------------------------------------------------------
(* float arithmetic *)

Abs(x) == IF x < 0 THEN -x ELSE x

Sign(x) == IF x < 0 THEN -1 ELSE IF x > 0 THEN 1 ELSE 0

RECURSIVE GCD(_, _)
GCD(a, b) == IF b = 0 THEN a ELSE GCD(b, a % b)

\* The float n/d, normalised.
Float(n, d) ==
  IF d = 0 THEN [n |-> Sign(n), d |-> 0]
  ELSE LET g == GCD(Abs(n), Abs(d))
       IN  [n |-> (Sign(d) * n) \div g, d |-> Abs(d) \div g]

\* static_cast<float>(i), float(i)
I(i) == Float(i, 1)

NaN == Float(0, 0)

IsNaN(x) == x.d = 0 /\ x.n = 0

IsFinite(x) == x.d > 0

FNeg(x) == [n |-> -x.n, d |-> x.d]

FAdd(x, y) ==
  IF IsFinite(x) /\ IsFinite(y) THEN Float(x.n * y.d + y.n * x.d, x.d * y.d)
  ELSE IF IsNaN(x) \/ IsNaN(y) THEN NaN
  ELSE IF IsFinite(x) THEN y
  ELSE IF IsFinite(y) THEN x
  ELSE IF x.n = y.n THEN x ELSE NaN

FSub(x, y) == FAdd(x, FNeg(y))

\* inf * 0 = NaN, NaN * y = NaN, inf * y = +-inf
FMul(x, y) == Float(x.n * y.n, x.d * y.d)

\* x / 0 = +-inf, 0 / 0 = NaN, x / inf = 0, inf / inf = NaN (the zero
\* divisors of the program are +0.0, converted from unsigned 0)
FDiv(x, y) == Float(x.n * y.d * (IF y.n < 0 THEN -1 ELSE 1), x.d * Abs(y.n))

\* x < y; false when either is NaN
FLess(x, y) ==
  /\ ~IsNaN(x) /\ ~IsNaN(y)
  /\ IF IsFinite(x) /\ IsFinite(y) THEN x.n * y.d < y.n * x.d
     ELSE IF IsFinite(x) THEN y.n > 0
     ELSE IF IsFinite(y) THEN x.n < 0
     ELSE x.n < y.n

\* truncation toward zero of a finite float, as an integer
Trunc(x) == Sign(x.n) * (Abs(x.n) \div x.d)

\* FMath::RoundHalfFromZero: the nearest integer, halves away from zero
RoundHalfFromZero(x) ==
  IF ~IsFinite(x) THEN x
  ELSE I(Sign(x.n) * ((2 * Abs(x.n) + x.d) \div (2 * x.d)))

\* std::fmod(x, y) for finite y # 0: x - y * trunc(x / y), with the sign of x
FMod(x, y) ==
  IF ~IsFinite(x) \/ IsNaN(y) \/ y.n = 0 THEN NaN
  ELSE IF ~IsFinite(y) THEN x
  ELSE FSub(x, FMul(y, I(Trunc(FDiv(x, y)))))

\* The outcomes followed of a float -> uint32 conversion that is undefined:
\* zero and a value that is not zero.
UndefinedUint32 == {0, 1}

\* The uint32 values a conversion of the float x can produce: the truncated
\* value when it is representable, otherwise (negative, infinite, NaN) the
\* conversion is undefined and any value may result.
ToUint32(x) ==
  IF IsFinite(x) /\ Trunc(x) >= 0 THEN {Trunc(x)}
  ELSE UndefinedUint32

---------------------------------------------------------------------------
(* The Lidar sensor: inputs *)

\* "Description == nullptr"
Null == [null |-> TRUE]

\* The ULidarDescription objects a caller passes to Set.  Set checks none
\* of the fields, so the configurations the design calls invalid are among
\* them: no channel, inverted field of view, no range, no points.
Descriptions ==
  { [Channels |-> 2, UpperFovLimit |-> 10, LowerFovLimit |-> -30, Range |-> 5000,
     PointsPerSecond |-> 100, RotationFrequency |-> 10, ShowDebugPoints |-> FALSE],
    [Channels |-> 3, UpperFovLimit |-> 10, LowerFovLimit |-> -30, Range |-> 5000,
     PointsPerSecond |-> 100, RotationFrequency |-> 5, ShowDebugPoints |-> TRUE],
    [Channels |-> 1, UpperFovLimit |-> 10, LowerFovLimit |-> -30, Range |-> 5000,
     PointsPerSecond |-> 20, RotationFrequency |-> 10, ShowDebugPoints |-> FALSE],
    [Channels |-> 2, UpperFovLimit |-> 2, LowerFovLimit |-> 2, Range |-> 5000,
     PointsPerSecond |-> 10, RotationFrequency |-> 10, ShowDebugPoints |-> FALSE],
    [Channels |-> 2, UpperFovLimit |-> 10, LowerFovLimit |-> -30, Range |-> 5000,
     PointsPerSecond |-> 20, RotationFrequency |-> -10, ShowDebugPoints |-> TRUE],
    [Channels |-> 0, UpperFovLimit |-> 10, LowerFovLimit |-> -30, Range |-> 5000,
     PointsPerSecond |-> 100, RotationFrequency |-> 10, ShowDebugPoints |-> FALSE],
    [Channels |-> 2, UpperFovLimit |-> -30, LowerFovLimit |-> 10, Range |-> 5000,
     PointsPerSecond |-> 20, RotationFrequency |-> 10, ShowDebugPoints |-> FALSE],
    [Channels |-> 2, UpperFovLimit |-> 10, LowerFovLimit |-> -30, Range |-> 0,
     PointsPerSecond |-> 20, RotationFrequency |-> 10, ShowDebugPoints |-> FALSE],
    [Channels |-> 2, UpperFovLimit |-> 10, LowerFovLimit |-> -30, Range |-> 5000,
     PointsPerSecond |-> 0, RotationFrequency |-> 10, ShowDebugPoints |-> FALSE] }

\* The DeltaTime values the engine passes to Tick: a paused frame, a
\* 20 Hz frame and a frame of reversed time.
DeltaTimes == { Float(0, 1), Float(1, 20), Float(-1, 20) }

\* GetActorLocation() / GetActorRotation() of the sensor: a location and a
\* rotation about the vertical axis (pitch = roll = 0).
Poses == { [Loc |-> <<I(0), I(0), I(0)>>, Yaw |-> 0],
           [Loc |-> <<I(100), I(200), I(50)>>, Yaw |-> 90] }

\* The scenes the ray casts are answered from.
Worlds == {"Empty", "Car", "Crossing"}

\* A miss of GetWorld()->LineTraceSingleByChannel: FHitResult(ForceInit).
NoHit ==
  [bBlockingHit |-> FALSE, ImpactPoint |-> <<I(0), I(0), I(0)>>,
   ComponentTag |-> "None", ActorTags |-> <<>>]

\* GetWorld()->LineTraceSingleByChannel(HitInfo, LidarBodyLoc, EndTrace, ...)
\* for the ray that leaves Loc in direction (Pitch, Yaw) and ends Range away.
\* A scene places one object at a distance on the rays it covers; the object
\* blocks the ray when it lies within Range.  A ray with a NaN direction
\* hits nothing.
\*   Car:      a vehicle all around, its component tagged Vehicles
\*   Crossing: below the horizon an actor with an untagged component and the
\*             tags <<None, Pedestrians, Vehicles>>; at and above the horizon
\*             an actor without any tag before yaw 90, and nothing from there on
LineTraceSingleByChannel(world, Loc, Pitch, Yaw, Range) ==
  LET Object(dist, ctag, atags) ==
        IF dist <= Range
        THEN [bBlockingHit |-> TRUE,
              ImpactPoint |-> <<FAdd(Loc[1], I(dist)), FAdd(Loc[2], Yaw),
                                FAdd(Loc[3], Pitch)>>,
              ComponentTag |-> ctag, ActorTags |-> atags]
        ELSE NoHit
  IN  IF ~IsFinite(Pitch) \/ ~IsFinite(Yaw) THEN NoHit
      ELSE CASE world = "Empty" -> NoHit
             [] world = "Car" -> Object(1000, "Vehicles", <<"Vehicles">>)
             [] world = "Crossing" ->
                  IF FLess(Pitch, I(0))
                  THEN Object(3000, "None", <<"None", "Pedestrians", "Vehicles">>)
                  ELSE IF FLess(Yaw, I(90))
                  THEN Object(2000, "None", <<"None">>)
                  ELSE NoHit

---------------------------------------------------------------------------
(* FLidarMeasurement: the header and the point buffer of the sensor *)

\* FLidarMeasurement(SensorId, ChannelCount): frame 0, angle 0, no point.
NewLidarMeasurement(ChannelCount) ==
  [ChannelCount |-> ChannelCount, FrameNumber |-> 0, HorizontalAngle |-> I(0),
   PointCounts |-> [c \in 1 .. ChannelCount |-> 0], Points |-> <<>>]

\* LidarMeasurement.Reset(TotalPointCount): the buffer is emptied (and
\* sized for TotalPointCount points), the per-channel counts are zeroed.
Reset(m, TotalPointCount) ==
  [m EXCEPT !.PointCounts = [c \in 1 .. m.ChannelCount |-> 0], !.Points = <<>>]

\* LidarMeasurement.WritePoint(Channel, Point), Channel counted from 0.
WritePoint(m, Channel, Point) ==
  [m EXCEPT !.PointCounts =
              [c \in DOMAIN m.PointCounts |->
                 IF c = Channel + 1 THEN m.PointCounts[c] + 1 ELSE m.PointCounts[c]],
            !.Points = Append(m.Points, Point)]

SetFrameNumber(m, FrameNumber) == [m EXCEPT !.FrameNumber = FrameNumber]

SetHorizontalAngle(m, HorizontalAngle) == [m EXCEPT !.HorizontalAngle = HorizontalAngle]

\* LidarMeasurement.GetView(): what WriteSensorData receives.
GetView(m) == m

\* Nothing has been handed to WriteSensorData yet.
NoData == [null |-> TRUE]

---------------------------------------------------------------------------
(* ALidar::CreateLasers *)

\* The loop of CreateLasers: NumberOfLasers angles appended to the table.
\* NumberOfLasers - 1 is unsigned: for NumberOfLasers = 0 it wraps to
\* 2^32 - 1, and the quotient is computed but never read (no iteration).
EmplaceLasers(table, desc) ==
  LET NumberOfLasers == desc.Channels
      DeltaAngle ==
        FDiv(FSub(I(desc.UpperFovLimit), I(desc.LowerFovLimit)),
             I(NumberOfLasers - 1))
      VerticalAngle(i) == FSub(I(desc.UpperFovLimit), FMul(I(i), DeltaAngle))
  IN  table \o [k \in 1 .. NumberOfLasers |-> VerticalAngle(k - 1)]

\* The table appended to the prior one (LaserAngles.Empty left out).
CreateLasersAppending(table, desc) == EmplaceLasers(table, desc)

\* LaserAngles.Empty(NumberOfLasers), then the loop.
CreateLasers(table, desc) == EmplaceLasers(<<>>, desc)

---------------------------------------------------------------------------
(* ALidar::ShootLaser *)

\* Cosine and sine of a multiple of 90 degrees.
CosDeg(a) == CASE a % 360 = 0 -> 1 [] a % 360 = 90 -> 0
               [] a % 360 = 180 -> -1 [] a % 360 = 270 -> 0

SinDeg(a) == CASE a % 360 = 0 -> 0 [] a % 360 = 90 -> 1
               [] a % 360 = 180 -> 0 [] a % 360 = 270 -> -1

\* UKismetMathLibrary::RotateAngleAxis(V, AngleDeg, FVector(0, 0, 1))
RotateAngleAxisZ(V, AngleDeg) ==
  << FSub(FMul(I(CosDeg(AngleDeg)), V[1]), FMul(I(SinDeg(AngleDeg)), V[2])),
     FAdd(FMul(I(SinDeg(AngleDeg)), V[1]), FMul(I(CosDeg(AngleDeg)), V[2])),
     V[3] >>

\* UKismetMathLibrary::ComposeRotators(LaserRot, LidarBodyRot) for a body
\* rotation about the vertical axis: the pitch of the laser, the yaws added.
ComposeRotators(LaserRot, BodyYaw) ==
  [Pitch |-> LaserRot.Pitch, Yaw |-> FAdd(LaserRot.Yaw, I(BodyYaw))]

\* CastEnum(tag): the number of an ECityObjectLabel.
CastEnum(tag) ==
  CASE tag = "None" -> 0 [] tag = "Pedestrians" -> 4 [] tag = "Vehicles" -> 10

\* for (auto t : tags) if (t != None) { tag = t; break; }   from index k on
RECURSIVE FirstTag(_, _, _)
FirstTag(tags, k, tag) ==
  IF k > Len(tags) THEN tag
  ELSE IF tags[k] # "None" THEN tags[k]
  ELSE FirstTag(tags, k + 1, tag)

\* The same loop without the break: the last tag that is not None.
RECURSIVE LastTag(_, _, _)
LastTag(tags, k, tag) ==
  IF k > Len(tags) THEN tag
  ELSE LastTag(tags, k + 1, IF tags[k] # "None" THEN tags[k] ELSE tag)

\* The annotation of a hit: the tag of the component, or of the actor.
TagOfHitNoBreak(HitInfo) ==
  IF HitInfo.ComponentTag = "None"
  THEN LastTag(HitInfo.ActorTags, 1, HitInfo.ComponentTag)
  ELSE HitInfo.ComponentTag

TagOfHit(HitInfo) ==
  IF HitInfo.ComponentTag = "None"
  THEN FirstTag(HitInfo.ActorTags, 1, HitInfo.ComponentTag)
  ELSE HitInfo.ComponentTag

\* The value of the caller's FVector4 when ShootLaser does not set it.
NoPoint == [X |-> I(0), Y |-> I(0), Z |-> I(0), L |-> 0]

\* ShootLaser(Channel, HorizontalAngle, XYZL): the result (hit), the point
\* set on a hit, whether a debug point was drawn, and the trace's answer.
ShootLaser(desc, angles, pose, world, Channel, HorizontalAngle) ==
  LET VerticalAngle == angles[Channel + 1]
      LaserRot == [Pitch |-> VerticalAngle, Yaw |-> HorizontalAngle]
      ResultRot == ComposeRotators(LaserRot, pose.Yaw)
      HitInfo == LineTraceSingleByChannel(world, pose.Loc, ResultRot.Pitch,
                                          ResultRot.Yaw, desc.Range)
      XYZ == RotateAngleAxisZ(
               << FSub(pose.Loc[1], HitInfo.ImpactPoint[1]),
                  FSub(pose.Loc[2], HitInfo.ImpactPoint[2]),
                  FSub(pose.Loc[3], HitInfo.ImpactPoint[3]) >>,
               -pose.Yaw + 90)
  IN  IF HitInfo.bBlockingHit
      THEN [hit |-> TRUE,
            XYZL |-> [X |-> XYZ[1], Y |-> XYZ[2], Z |-> XYZ[3],
                      L |-> CastEnum(TagOfHit(HitInfo))],
            debug |-> desc.ShowDebugPoints, HitInfo |-> HitInfo]
      ELSE [hit |-> FALSE, XYZL |-> NoPoint, debug |-> FALSE, HitInfo |-> HitInfo]

---------------------------------------------------------------------------
(* ALidar::ReadPoints *)

\* The degrees of one revolution.
FullTurn == 360

\* FMath::RoundHalfFromZero(PointsPerSecond * DeltaTime / float(ChannelCount)),
\* before it is stored in the uint32 PointsToScanWithOneLaser.
PointsRequested(desc, DeltaTime) ==
  RoundHalfFromZero(
    FDiv(FMul(I(desc.PointsPerSecond), DeltaTime), I(desc.Channels)))

\* RotationFrequency * 360.0f * DeltaTime
AngleDistanceOfTick(desc, DeltaTime) ==
  FMul(FMul(I(desc.RotationFrequency), I(FullTurn)), DeltaTime)

\* The ray casts of the two nested loops, in the order they are made: for
\* each Channel, for each i < PointsToScanWithOneLaser.
ScanShots(m, desc, angles, pose, world, DeltaTime, PointsToScanWithOneLaser) ==
  LET ChannelCount == desc.Channels
      CurrentHorizontalAngle == m.HorizontalAngle
      AngleDistanceOfLaserMeasure ==
        FDiv(AngleDistanceOfTick(desc, DeltaTime), I(PointsToScanWithOneLaser))
      Shot(Channel, i) ==
        LET Angle == FAdd(CurrentHorizontalAngle,
                          FMul(AngleDistanceOfLaserMeasure, I(i)))
        IN  [Channel |-> Channel, i |-> i, Angle |-> Angle,
             VerticalAngle |-> angles[Channel + 1],
             r |-> ShootLaser(desc, angles, pose, world, Channel, Angle)]
  IN  [k \in 1 .. ChannelCount * PointsToScanWithOneLaser |->
         Shot((k - 1) \div PointsToScanWithOneLaser,
              (k - 1) % PointsToScanWithOneLaser)]

\* A point written for every ray, hit or not.
RECURSIVE WriteEveryShot(_, _, _)
WriteEveryShot(m, shots, k) ==
  IF k > Len(shots) THEN m
  ELSE WriteEveryShot(WritePoint(m, shots[k].Channel, shots[k].r.XYZL), shots, k + 1)

\* if (ShootLaser(Channel, Angle, Point)) LidarMeasurement.WritePoint(Channel, Point);
\* for the shots from the k-th on.
RECURSIVE WriteHits(_, _, _)
WriteHits(m, shots, k) ==
  IF k > Len(shots) THEN m
  ELSE WriteHits(IF shots[k].r.hit
                 THEN WritePoint(m, shots[k].Channel, shots[k].r.XYZL)
                 ELSE m,
                 shots, k + 1)

\* The shots of a tick: none when no point is requested.
ShotsOfTick(m, desc, angles, pose, world, DeltaTime, PointsToScanWithOneLaser) ==
  IF PointsToScanWithOneLaser <= 0 THEN <<>>
  ELSE ScanShots(m, desc, angles, pose, world, DeltaTime, PointsToScanWithOneLaser)

\* ReadPoints with the frame and the angle updated also when it scans nothing.
ReadPointsAlwaysAdvancing(m, desc, shots, DeltaTime, frame, PointsToScanWithOneLaser) ==
  SetHorizontalAngle(
    SetFrameNumber(
      IF PointsToScanWithOneLaser <= 0 THEN m
      ELSE WriteHits(Reset(m, desc.Channels * PointsToScanWithOneLaser), shots, 1),
      frame),
    FMod(FAdd(m.HorizontalAngle, AngleDistanceOfTick(desc, DeltaTime)), I(FullTurn)))

\* ReadPoints(DeltaTime): the measurement after it.  shots are the ray casts
\* of its loops, frame the value of GFrameCounter.
ReadPoints(m, desc, shots, DeltaTime, frame, PointsToScanWithOneLaser) ==
  IF PointsToScanWithOneLaser <= 0 THEN m
  ELSE LET CurrentHorizontalAngle == m.HorizontalAngle
           HorizontalAngle ==
             FMod(FAdd(CurrentHorizontalAngle, AngleDistanceOfTick(desc, DeltaTime)),
                  I(FullTurn))
       IN  SetHorizontalAngle(
             SetFrameNumber(
               WriteHits(Reset(m, desc.Channels * PointsToScanWithOneLaser), shots, 1),
               frame),
             HorizontalAngle)

---------------------------------------------------------------------------
(* The sensor's operations *)

NoCall ==
  [op |-> "None", Arg |-> Null, DeltaTime |-> I(0), Pose |-> Null, World |-> "",
   Requested |-> I(0), Points |-> 0, Shots |-> <<>>, BeforeAngle |-> I(0),
   BeforeFrame |-> 0, BeforePoints |-> 0, BeforeTable |-> <<>>, Frame |-> 0,
   Written |-> NoData]

\* ALidar::Set(LidarDescription) when check(NumberOfLasers > 0u) passes or is
\* compiled out (DO_CHECK = 0).
Set(desc) ==
  /\ ~aborted
  /\ Description' = desc
  /\ LidarMeasurement' = NewLidarMeasurement(desc.Channels)
  /\ LaserAngles' = CreateLasers(LaserAngles, desc)
  /\ last' = [NoCall EXCEPT !.op = "Set", !.Arg = desc, !.BeforeTable = LaserAngles]
  /\ UNCHANGED <<GFrameCounter, aborted, episodeVars>>

\* ALidar::Set(LidarDescription) when check(NumberOfLasers > 0u) fails: the
\* description and the measurement are installed, then the process stops.
SetCheckFails(desc) ==
  /\ ~aborted
  /\ desc.Channels = 0
  /\ Description' = desc
  /\ LidarMeasurement' = NewLidarMeasurement(desc.Channels)
  /\ aborted' = TRUE
  /\ last' = [NoCall EXCEPT !.op = "Set", !.Arg = desc, !.BeforeTable = LaserAngles]
  /\ UNCHANGED <<LaserAngles, GFrameCounter, episodeVars>>

\* ALidar::Tick(DeltaTime): ReadPoints, then WriteSensorData of the view.
\* The observation keeps the pose and the scene of the rays it cast.
Tick(DeltaTime, pose, world) ==
  /\ ~aborted
  /\ Description # Null
  /\ \E P \in ToUint32(PointsRequested(Description, DeltaTime)) :
     \E shots \in {ShotsOfTick(LidarMeasurement, Description, LaserAngles,
                               pose, world, DeltaTime, P)} :
     \E after \in {ReadPoints(LidarMeasurement, Description, shots, DeltaTime,
                              GFrameCounter, P)} :
       /\ LidarMeasurement' = after
       /\ last' = [NoCall EXCEPT
                     !.op = "Tick", !.DeltaTime = DeltaTime,
                     !.Pose = IF shots = <<>> THEN Null ELSE pose,
                     !.World = IF shots = <<>> THEN "" ELSE world,
                     !.Requested = PointsRequested(Description, DeltaTime),
                     !.Points = P, !.Shots = shots,
                     !.BeforeAngle = LidarMeasurement.HorizontalAngle,
                     !.BeforeFrame = LidarMeasurement.FrameNumber,
                     !.BeforePoints = Len(LidarMeasurement.Points),
                     !.Frame = GFrameCounter,
                     !.Written = GetView(after)]
  /\ UNCHANGED <<Description, LaserAngles, GFrameCounter, aborted, episodeVars>>

\* ALidar::Tick before any Set: ReadPoints reads Description->Channels
\* through the null pointer.
TickUnconfigured ==
  /\ ~aborted
  /\ Description = Null
  /\ aborted' = TRUE
  /\ last' = [NoCall EXCEPT !.op = "Tick"]
  /\ UNCHANGED <<Description, LaserAngles, LidarMeasurement, GFrameCounter,
                 episodeVars>>

\* The engine ends a frame: GFrameCounter is incremented.
EngineFrame ==
  /\ ~aborted
  /\ GFrameCounter < MaxFrameCounter
  /\ GFrameCounter' = GFrameCounter + 1
  /\ UNCHANGED <<Description, LaserAngles, LidarMeasurement, aborted, last,
                 episodeVars>>

---------------------------------------------------------------------------
(* UCarlaEpisode: spawning actors and recording them *)

\* An FString holding the text s.
FString(s) == [TCHAR |-> s]

\* carla::rpc::FromFString: the std::string of an FString.
FromFString(f) == f.TCHAR

\* The FActorDescription values callers pass: UId, Id and the Variations map
\* (in its iteration order) of attributes with Id, Type and Value.
ActorDescriptions ==
  { [UId |-> 7, Id |-> FString("vehicle.mustang"),
     Variations |->
       << [Key |-> FString("color"),
           Value |-> [Id |-> FString("color"), Type |-> 4, Value |-> FString("255,0,0")]],
          [Key |-> FString("wheels"),
           Value |-> [Id |-> FString("wheels"), Type |-> 1, Value |-> FString("4")]] >>],
    [UId |-> 9, Id |-> FString("sensor.lidar"), Variations |-> <<>>] }

\* The FTransform values callers pass.
Transforms == {"StartA", "StartB"}

\* EActorSpawnResultStatus
SpawnResultStatuses == {"Success", "InvalidDescription", "Collision"}

\* The carla::rpc::ActorDescription built from the Unreal description.
ToRpcDescription(thisActorDescription) ==
  [uid |-> thisActorDescription.UId,
   id |-> FromFString(thisActorDescription.Id),
   attributes |->
     [k \in 1 .. Len(thisActorDescription.Variations) |->
        LET item == thisActorDescription.Variations[k]
        IN  [id |-> FromFString(item.Value.Id),
             type |-> item.Value.Type,
             value |-> FromFString(item.Value.Value)]]]

\* ActorDispatcher.SpawnActor(Transform, Description): the results it can
\* return.  On Success the view holds a new actor, with the next free id;
\* otherwise the view is invalid (actor id 0, no actor).
DispatcherResults(registry, Transform, ActorDescription) ==
  { [Key |-> st,
     Value |-> IF st = "Success"
               THEN [ActorId |-> Cardinality(registry) + 1,
                     Actor |-> Cardinality(registry) + 1]
               ELSE [ActorId |-> 0, Actor |-> 0]]
    : st \in SpawnResultStatuses }

\* Recorder.addEvent(recEvent)
addEvent(rec, recEvent) == Append(rec, recEvent)

\* The recorder with an Add event for every result, whatever its status.
RecordSpawnOfAnyStatus(rec, result, Transform, description) ==
  addEvent(rec, [Type |-> "Add", ActorId |-> result.Value.ActorId,
                 Transform |-> Transform, Description |-> description])

\* if (result.Key == EActorSpawnResultStatus::Success) Recorder.addEvent(...)
RecordSpawn(rec, result, Transform, description) ==
  IF result.Key = "Success"
  THEN addEvent(rec, [Type |-> "Add", ActorId |-> result.Value.ActorId,
                      Transform |-> Transform, Description |-> description])
  ELSE rec

\* The effect of SpawnActorWithInfo(Transform, thisActorDescription) when the
\* dispatcher answers result; returned is what the caller gets back.
SpawnEffect(Transform, thisActorDescription, result, via, returned) ==
  LET description == ToRpcDescription(thisActorDescription)
  IN  /\ result \in DispatcherResults(Registry, Transform, thisActorDescription)
      /\ Recorder' = RecordSpawn(Recorder, result, Transform, description)
      /\ Registry' = IF result.Key = "Success"
                     THEN Registry \cup {result.Value.ActorId} ELSE Registry
      /\ calls' = Append(calls, [via |-> via, Transform |-> Transform,
                                 Request |-> thisActorDescription,
                                 Result |-> result, Returned |-> returned])

\* UCarlaEpisode::SpawnActorWithInfo: returns the dispatcher's result.
SpawnActorWithInfo(Transform, thisActorDescription) ==
  /\ Len(calls) < MaxCalls
  /\ \E result \in DispatcherResults(Registry, Transform, thisActorDescription) :
       SpawnEffect(Transform, thisActorDescription, result,
                   "SpawnActorWithInfo", result)
  /\ UNCHANGED lidarVars

\* UCarlaEpisode::SpawnActor, the overload for blueprints: returns the actor
\* of the view (nullptr, here 0, on failure).
SpawnActor(Transform, ActorDescription) ==
  /\ Len(calls) < MaxCalls
  /\ \E result \in DispatcherResults(Registry, Transform, ActorDescription) :
       SpawnEffect(Transform, ActorDescription, result, "SpawnActor",
                   [Actor |-> result.Value.Actor])
  /\ UNCHANGED lidarVars

---------------------------------------------------------------------------
(* Specifications *)

Init ==
  /\ Description = Null
  /\ LaserAngles = <<>>
  /\ LidarMeasurement = NewLidarMeasurement(0)
  /\ GFrameCounter = 0
  /\ aborted = FALSE
  /\ last = NoCall
  /\ Recorder = <<>>
  /\ Registry = {}
  /\ calls = <<>>

Next ==
  \/ \E desc \in Descriptions : Set(desc)
  \/ \E desc \in Descriptions : SetCheckFails(desc)
  \/ \E DeltaTime \in DeltaTimes, pose \in Poses, world \in Worlds :
       Tick(DeltaTime, pose, world)
  \/ TickUnconfigured
  \/ EngineFrame

Spec == Init /\ [][Next]_vars

NextEpisode ==
  \/ \E Transform \in Transforms, d \in ActorDescriptions :
       SpawnActorWithInfo(Transform, d)
  \/ \E Transform \in Transforms, d \in ActorDescriptions :
       SpawnActor(Transform, d)

SpecEpisode == Init /\ [][NextEpisode]_vars

---------------------------------------------------------------------------
(* Properties of the Lidar sensor *)

\* The configurations the design accepts.
ValidConfiguration(desc) ==
  /\ desc.Channels > 0
  /\ desc.LowerFovLimit <= desc.UpperFovLimit
  /\ desc.Range > 0
  /\ desc.PointsPerSecond > 0

\* The last call was a Tick that ran to its end.
Ticked == last.op = "Tick" /\ ~aborted

\* x is a finite number in [0, 360)
Normalized(x) == IsFinite(x) /\ x.n >= 0 /\ x.n < FullTurn * x.d

\* x - y is a whole number of turns
SameDirection(x, y) ==
  LET diff == FSub(x, y)
  IN  IsFinite(diff) /\ diff.d = 1 /\ diff.n % FullTurn = 0

\* The angle swept in the last tick, RotationFrequency * 360 * DeltaTime.
SweptAngle ==
  Float(Description.RotationFrequency * FullTurn * last.DeltaTime.n, last.DeltaTime.d)

\* C1: the stored horizontalAngle always lies in [0, 360), and after a
\* scanning tick it is (previous angle + RotationFrequency*360*dt) mod 360.
\* Stated for the ticks of non-negative elapsed time on a valid configuration.
C1_HorizontalAngleNormalized ==
  (/\ Description # Null => ValidConfiguration(Description)
   /\ last.op = "Tick" => ~FLess(last.DeltaTime, I(0))) =>
    /\ Normalized(LidarMeasurement.HorizontalAngle)
    /\ (Ticked /\ last.Points > 0) =>
         SameDirection(LidarMeasurement.HorizontalAngle,
                       FAdd(last.BeforeAngle, SweptAngle))

\* C2: a tick whose computed pointsPerLaser is <= 0 hands an empty point set
\* to the sink, with no point of an earlier tick in it.  Stated for the
\* ticks of non-negative elapsed time on a valid configuration.
C2_SkippedTickDeliversNoPoint ==
  (/\ Ticked /\ last.Points <= 0
   /\ ValidConfiguration(Description) /\ ~FLess(last.DeltaTime, I(0))) =>
    (last.Written # NoData /\ last.Written.Points = <<>>)

\* C3: a tick whose computed pointsPerLaser is <= 0 leaves horizontalAngle
\* and frameNumber as they were; a tick with pointsPerLaser > 0 sets
\* frameNumber to the host frame and advances horizontalAngle by the angle
\* swept (up to whole turns).
C3_SkipKeepsScanState ==
  Ticked =>
    IF last.Points <= 0
    THEN /\ LidarMeasurement.HorizontalAngle = last.BeforeAngle
         /\ LidarMeasurement.FrameNumber = last.BeforeFrame
    ELSE /\ LidarMeasurement.FrameNumber = last.Frame
         /\ SameDirection(LidarMeasurement.HorizontalAngle,
                          FAdd(last.BeforeAngle, SweptAngle))

\* C3 witness: a tick of 1/20 s that requests no point, in a frame other
\* than the stored one, with a rotating sensor.
C3_Witness ==
  /\ Ticked /\ last.Points = 0
  /\ last.DeltaTime = Float(1, 20)
  /\ Description.RotationFrequency # 0
  /\ last.Frame # last.BeforeFrame

\* C4: Set with an invalid configuration installs nothing of it: the
\* installed Description is never an invalid one, and no empty angle table
\* is produced by a Set.
C4_InvalidConfigurationRejected ==
  /\ Description # Null => ValidConfiguration(Description)
  /\ last.op = "Set" =>
       (ValidConfiguration(last.Arg) \/ Description # last.Arg)
  /\ (last.op = "Set" /\ ~aborted) => LaserAngles # <<>>

\* C5: with one channel the angle table is exactly <<UpperFovLimit>>.
C5_SingleChannelTable ==
  (Description # Null /\ Description.Channels = 1 /\ ~aborted) =>
    LaserAngles = <<I(Description.UpperFovLimit)>>

\* The table of a configuration with at least two channels and
\* LowerFovLimit <= UpperFovLimit: as many entries as channels, from the
\* upper limit down to the lower limit in equal steps.
EvenlySpacedTable ==
  LET n == Description.Channels
      step == Float(Description.UpperFovLimit - Description.LowerFovLimit, n - 1)
  IN  /\ Len(LaserAngles) = n
      /\ LaserAngles[1] = I(Description.UpperFovLimit)
      /\ LaserAngles[n] = I(Description.LowerFovLimit)
      /\ \A c \in 1 .. n - 1 : FSub(LaserAngles[c], LaserAngles[c + 1]) = step

TwoChannelsOrMore ==
  /\ Description # Null
  /\ Description.Channels >= 2
  /\ Description.LowerFovLimit <= Description.UpperFovLimit

\* C6 as stated: for channels >= 2 and lower <= upper the table has
\* `channels` evenly spaced entries from upper to lower, strictly decreasing.
C6_TableStrictlyDecreasing ==
  TwoChannelsOrMore =>
    /\ EvenlySpacedTable
    /\ \A c \in 1 .. Description.Channels - 1 :
         FLess(LaserAngles[c + 1], LaserAngles[c])

\* C6 amended: for channels >= 2 and lower <= upper the table has `channels`
\* evenly spaced entries from upper to lower (every Set replacing the prior
\* table); they are strictly decreasing when lower < upper and all equal
\* when lower = upper.
C6_Table ==
  TwoChannelsOrMore =>
    /\ EvenlySpacedTable
    /\ \A c \in 1 .. Description.Channels - 1 :
         IF Description.LowerFovLimit < Description.UpperFovLimit
         THEN FLess(LaserAngles[c + 1], LaserAngles[c])
         ELSE LaserAngles[c + 1] = LaserAngles[c]

\* C6 witness: a three-channel table installed by a Set on a sensor that
\* had a table of two channels.
C6_Witness ==
  /\ last.op = "Set"
  /\ TwoChannelsOrMore
  /\ Description.Channels = 3
  /\ Description.LowerFovLimit < Description.UpperFovLimit
  /\ Len(last.BeforeTable) = 2

\* C7: with P = round_half_away_from_zero(pointsPerSecond * dt / channels)
\* (88 for 56000 points per second, 32 channels and dt = 1/20), a tick casts
\* no ray when P <= 0, a negative P included, and otherwise channels * P
\* rays, ray (c, i) at the horizontal angle
\* current + i * (rotationFrequency*360*dt / P) and the vertical angle
\* LaserAngles[c].  Stated for the valid configurations.
C7_RaysOfTick ==
  /\ RoundHalfFromZero(FDiv(FMul(I(56000), Float(1, 20)), I(32))) = I(88)
  /\ (Ticked /\ ValidConfiguration(Description)) =>
       LET x == Float(Description.PointsPerSecond * last.DeltaTime.n,
                      Description.Channels * last.DeltaTime.d)
           P == IF 2 * Abs(x.n) >= x.d
                THEN Sign(x.n) * ((2 * Abs(x.n) + x.d) \div (2 * x.d))
                ELSE 0
       IN  IF P <= 0 THEN last.Shots = <<>>
           ELSE /\ Len(last.Shots) = Description.Channels * P
                /\ \A c \in 0 .. Description.Channels - 1 : \A i \in 0 .. P - 1 :
                     LET shot == last.Shots[c * P + i + 1]
                     IN  /\ shot.Channel = c /\ shot.i = i
                         /\ shot.VerticalAngle = LaserAngles[c + 1]
                         /\ shot.Angle =
                              FAdd(last.BeforeAngle,
                                   Float(i * SweptAngle.n, P * SweptAngle.d))

\* The indices of the shots of the last tick that hit.
HitShots == { k \in 1 .. Len(last.Shots) : last.Shots[k].r.hit }

\* The index of the j-th shot that hit.
NthHit(j) == CHOOSE k \in HitShots : Cardinality({h \in HitShots : h <= k}) = j

\* C8: after a scanning tick the buffer holds one point per ray that hit
\* and nothing for a miss, in (channel, sample) order, nothing of an
\* earlier tick; their number is at most channels * pointsPerLaser; and
\* that buffer is what the sink was handed.
C8_PointsAreTheHits ==
  (Ticked /\ last.Points > 0) =>
    /\ \A k \in 1 .. Len(last.Shots) :
         last.Shots[k].Channel * last.Points + last.Shots[k].i = k - 1
    /\ Len(LidarMeasurement.Points) = Cardinality(HitShots)
    /\ \A j \in 1 .. Len(LidarMeasurement.Points) :
         LidarMeasurement.Points[j] = last.Shots[NthHit(j)].r.XYZL
    /\ \A c \in 1 .. Description.Channels :
         LidarMeasurement.PointCounts[c] =
           Cardinality({k \in HitShots : last.Shots[k].Channel = c - 1})
    /\ Len(LidarMeasurement.Points) <= Description.Channels * last.Points
    /\ last.Written.Points = LidarMeasurement.Points

\* C8 witness: a scanning tick with rays that hit and rays that miss, on a
\* buffer that held points of an earlier tick.
C8_Witness ==
  /\ Ticked /\ last.Points > 0
  /\ last.BeforePoints > 0
  /\ HitShots # {}
  /\ HitShots # 1 .. Len(last.Shots)

\* The label the design gives a hit: the component's tag if it is not None,
\* else the first tag of the actor that is not None, else None.
LabelOfHit(HitInfo) ==
  LET tagged == { k \in 1 .. Len(HitInfo.ActorTags) : HitInfo.ActorTags[k] # "None" }
  IN  IF HitInfo.ComponentTag # "None" THEN HitInfo.ComponentTag
      ELSE IF tagged = {} THEN "None"
      ELSE HitInfo.ActorTags[CHOOSE k \in tagged : \A h \in tagged : k <= h]

\* C9: the label of every point is the component's tag if not None, else
\* the first non-None tag of the actor, else None; and ShowDebugPoints
\* changes neither the result nor the point of a shot.
C9_LabelOfHit ==
  Ticked =>
    \A k \in 1 .. Len(last.Shots) :
      LET shot == last.Shots[k]
          other == ShootLaser([Description EXCEPT !.ShowDebugPoints = ~@],
                              LaserAngles, last.Pose, last.World,
                              shot.Channel, shot.Angle)
      IN  /\ shot.r.hit => shot.r.XYZL.L = CastEnum(LabelOfHit(shot.r.HitInfo))
          /\ shot.r.debug = (shot.r.hit /\ Description.ShowDebugPoints)
          /\ other.hit = shot.r.hit
          /\ other.XYZL = shot.r.XYZL

\* C9 witness: with debug points shown, a hit on an untagged component of an
\* actor tagged <<None, Pedestrians, Vehicles>>, labelled Pedestrians.
C9_Witness ==
  /\ Ticked
  /\ Description.ShowDebugPoints
  /\ \E k \in 1 .. Len(last.Shots) :
       /\ last.Shots[k].r.hit /\ last.Shots[k].r.debug
       /\ last.Shots[k].r.HitInfo.ComponentTag = "None"
       /\ last.Shots[k].r.HitInfo.ActorTags = <<"None", "Pedestrians", "Vehicles">>
       /\ last.Shots[k].r.XYZL.L = CastEnum("Pedestrians")

---------------------------------------------------------------------------
(* Properties of the episode *)

\* The Add events of the calls from the k-th on whose dispatcher status was
\* Success, in call order.
RECURSIVE AddEventsOf(_, _)
AddEventsOf(cs, k) ==
  IF k > Len(cs) THEN <<>>
  ELSE LET c == cs[k]
           event ==
             [Type |-> "Add", ActorId |-> c.Result.Value.ActorId,
              Transform |-> c.Transform,
              Description |->
                [uid |-> c.Request.UId, id |-> c.Request.Id.TCHAR,
                 attributes |->
                   [a \in 1 .. Len(c.Request.Variations) |->
                      [id |-> c.Request.Variations[a].Value.Id.TCHAR,
                       type |-> c.Request.Variations[a].Value.Type,
                       value |-> c.Request.Variations[a].Value.Value.TCHAR]]]]
       IN  (IF c.Result.Key = "Success" THEN <<event>> ELSE <<>>)
             \o AddEventsOf(cs, k + 1)

\* C10: the recorder holds exactly one Add event per call whose status was
\* Success, in call order, with the actor's id, the transform and the
\* description of the request; every call returns the dispatcher's result
\* (SpawnActor: its actor) unchanged.
C10_OneAddEventPerSuccess ==
  /\ Recorder = AddEventsOf(calls, 1)
  /\ \A k \in 1 .. Len(calls) :
       IF calls[k].via = "SpawnActorWithInfo"
       THEN calls[k].Returned = calls[k].Result
       ELSE calls[k].Returned = [Actor |-> calls[k].Result.Value.Actor]

\* C10 witness: a failed call between two successful ones, one of them
\* through each entry point, with a description that has attributes.
C10_Witness ==
  /\ Len(calls) = 3
  /\ calls[1].Result.Key = "Success" /\ calls[1].via = "SpawnActor"
  /\ calls[1].Request.Variations # <<>>
  /\ calls[2].Result.Key # "Success"
  /\ calls[3].Result.Key = "Success" /\ calls[3].via = "SpawnActorWithInfo"
  /\ Len(Recorder) = 2

=============================================================================
